---- MODULE Spec2Model ----
(***************************************************************************)
(* Model of the Polymarket Telegram bot: the dynamic command handler of    *)
(* bot.py, generate_report of report_generator.py and the data-source      *)
(* helpers of polymarket_api.py.                                           *)
(***************************************************************************)
EXTENDS Integers, Sequences, FiniteSets, TLC

VARIABLES
    event,            \* what the Gamma API answers for the event slug
    now,              \* datetime.now(): [year, month, day]
    pc,               \* position of handle_dynamic_command / generate_report
    markets,          \* generate_report: markets
    valid_markets,    \* generate_report: valid_markets, tuples (m, title, parsed_dt)
    ordered_markets,  \* generate_report: ordered_markets
    axs,              \* generate_report: axs
    panels,           \* what has been drawn on each subplot of the figure
    iter,             \* number of loop iterations of generate_report completed
    table_rows,       \* generate_report: table_rows
    calls,            \* data-source calls performed by generate_report, in order
    result,           \* what generate_report returned (or that it raised)
    chat,             \* messages delivered to the chat, in order
    handler,          \* how handle_dynamic_command ended
    hist_responses,   \* get_price_history on its own: the three HTTP answers
    hist_return       \* get_price_history on its own: its outcome

vars == <<event, now, pc, markets, valid_markets, ordered_markets, axs, panels,
          iter, table_rows, calls, result, chat, handler, hist_responses, hist_return>>

(***************************************************************************)
(* Bounds                                                                  *)
(***************************************************************************)
\* longest event (number of sub-markets) drawn from MarketPool
MaxMarkets == 2
\* longest event drawn from SelectionPool
MaxSelection == 3
\* longest event drawn from CapPool, long enough to exceed the cap of 5
MaxCapMarkets == 6

(***************************************************************************)
(* Python values                                                           *)
(***************************************************************************)
NoToken == "None"
NoDate == [year |-> 0, month |-> 0, day |-> 0]
PyNone == [kind |-> "none"]
PyList(s) == [kind |-> "list", value |-> s]
\* a str holding JSON text: decodes tells whether json.loads accepts it
PyStr(ok, s) == [kind |-> "str", decodes |-> ok, value |-> s]
NoKey == [has |-> FALSE, v |-> <<>>]
Key(v) == [has |-> TRUE, v |-> v]

\* str(x).strip().lower() on the outcome names used here
StripLower(s) ==
    CASE s = "Yes" -> "yes"
      [] s = " YES " -> "yes"
      [] s = "True" -> "true"
      [] s = "No" -> "no"
      [] OTHER -> s

\* str(x).lower() on the status values used here (no strip)
Lower(s) ==
    CASE s = "Closed" -> "closed"
      [] s = "RESOLVED" -> "resolved"
      [] s = "Finalized" -> "finalized"
      [] s = "Active" -> "active"
      [] OTHER -> s

(***************************************************************************)
(* report_generator.parse_market_date                                      *)
(* A title is the sequence of its blank-separated words; a day word is     *)
(* written as its number.                                                  *)
(***************************************************************************)
MonthNames == <<"January", "February", "March", "April", "May", "June", "July",
                "August", "September", "October", "November", "December">>

IsLeap(y) == (y % 4 = 0 /\ y % 100 # 0) \/ y % 400 = 0

DaysInMonth(y, m) ==
    IF m = 2 THEN (IF IsLeap(y) THEN 29 ELSE 28)
    ELSE IF m \in {4, 6, 9, 11} THEN 30 ELSE 31

\* strptime(f"{date_str} {current_year}", "%B %d %Y"); ValueError -> None
parse_market_date(date_str, current_year) ==
    IF /\ Len(date_str) = 2
       /\ \E m \in 1..12 : MonthNames[m] = date_str[1]
       /\ date_str[2] \in 1..DaysInMonth(current_year,
              CHOOSE m \in 1..12 : MonthNames[m] = date_str[1])
    THEN [year |-> current_year,
          month |-> CHOOSE m \in 1..12 : MonthNames[m] = date_str[1],
          day |-> date_str[2]]
    ELSE NoDate

\* total order of datetimes / dates
Ord(d) == d.year * 10000 + d.month * 100 + d.day

\* parsed_dt.strftime('%Y-%m-%d')
Strftime(d) == <<d.year, d.month, d.day>>

(***************************************************************************)
(* report_generator.is_market_closed                                       *)
(***************************************************************************)
\* faulty variant: the status is compared without lower-casing it
is_market_closed_CaseSensitive(market) ==
    LET closed_flag == market.closed \/ market.isResolved
    IN  closed_flag \/ market.status \in {"closed", "resolved", "finalized"}

is_market_closed(market) ==
    LET status == Lower(market.status)
        closed_flag == market.closed \/ market.isResolved
    IN  closed_flag \/ status \in {"closed", "resolved", "finalized"}

(***************************************************************************)
(* polymarket_api: the data source                                         *)
(***************************************************************************)
\* an HTTP exchange: requests.get raised, or answered with a status and a body
HistoryAnswer(raises, status, history) ==
    [raises |-> raises, status |-> status, history |-> history]
MarketAnswer(raises, status, json) ==
    [raises |-> raises, status |-> status, json |-> json]

\* get_event_markets: every failure is caught and becomes the empty list
get_event_markets(ev) ==
    IF ev.raises \/ ev.status # 200 THEN <<>> ELSE ev.markets

\* parse_stringified_list: json.loads on a str, [] when it does not decode
parse_stringified_list(data) ==
    IF data.kind = "str"
    THEN (IF data.decodes THEN PyList(data.value) ELSE PyList(<<>>))
    ELSE data

\* truthiness of None / a list
Truthy(data) == data.kind = "list" /\ data.value # <<>>

IsYes(outcome) == StripLower(outcome) \in {"yes", "true"}

\* index of the first "yes"/"true" outcome name, 0 when there is none
FirstYes(names) ==
    IF \E i \in 1..Len(names) : IsYes(names[i])
    THEN CHOOSE i \in 1..Len(names) :
            IsYes(names[i]) /\ \A j \in 1..(i - 1) : ~IsYes(names[j])
    ELSE 0

\* step 2 of get_yes_token_id: the parallel outcomes / clobTokenIds lists
ClobTokenLookup(market) ==
    LET outcomes == parse_stringified_list(market.outcomes)
        clob_ids == parse_stringified_list(market.clobTokenIds)
    IN  IF Truthy(clob_ids) /\ Truthy(outcomes)
        THEN LET idx == FirstYes(outcomes.value)
             IN  IF idx # 0 /\ idx <= Len(clob_ids.value)
                 THEN clob_ids.value[idx] ELSE NoToken
        ELSE NoToken

\* step 1 of get_yes_token_id: a "yes" entry of the tokens list decides, even
\* when it carries no tokenId
get_yes_token_id(market) ==
    LET tokens == market.tokens
        found == Truthy(tokens)
                 /\ \E i \in 1..Len(tokens.value) : IsYes(tokens.value[i].outcome)
    IN  IF found
        THEN tokens.value[FirstYes([i \in 1..Len(tokens.value) |->
                                        tokens.value[i].outcome])].tokenId
        ELSE ClobTokenLookup(market)

\* fetch_full_market_details: the JSON body on status 200, None otherwise
\* (an exception is swallowed)
fetch_full_market_details(resp) ==
    IF ~resp.raises /\ resp.status = 200
    THEN [found |-> TRUE, market |-> resp.json]
    ELSE [found |-> FALSE, market |-> [tokens |-> PyNone, outcomes |-> PyNone,
                                       clobTokenIds |-> PyNone]]

\* the interval of each request strategy, in the order of the list
Strategies == <<"1d", "6h", "max">>

\* faulty variant: an exception of the request is not caught
AttemptOutcomeUncaught(r) ==
    IF r.raises THEN "raise"
    ELSE IF r.status = 200 /\ r.history # <<>> THEN "return"
    ELSE "next"

\* faulty variant: any answer with status 200 ends the loop, even with no history
AttemptOutcomeAny200(r) ==
    IF r.raises THEN "next"
    ELSE IF r.status = 200 THEN "return"
    ELSE "next"

\* the body of the for loop (try / except Exception: continue) on one answer:
\* "return" the history, or go on to the "next" strategy; nothing is raised
AttemptOutcome(r) ==
    IF r.raises THEN "next"
    ELSE IF r.status = 200 /\ r.history # <<>> THEN "return"
    ELSE "next"

\* the for loop of get_price_history from strategy i on; requests is the list of
\* intervals already requested
RECURSIVE TryStrategies(_, _, _)
TryStrategies(resp, i, requests) ==
    IF i > Len(Strategies)
    THEN [raised |-> FALSE, history |-> <<>>, requests |-> requests]
    ELSE LET sent == Append(requests, Strategies[i])
             outcome == AttemptOutcome(resp[i])
         IN  CASE outcome = "return" ->
                    [raised |-> FALSE, history |-> resp[i].history, requests |-> sent]
               [] outcome = "raise" ->
                    [raised |-> TRUE, history |-> <<>>, requests |-> sent]
               [] OTHER -> TryStrategies(resp, i + 1, sent)

get_price_history(resp) == TryStrategies(resp, 1, <<>>)

(***************************************************************************)
(* report_generator.generate_report: selection (lines 38-58)               *)
(***************************************************************************)
\* m.get('groupItemTitle', m.get('question', 'Unknown'))
Title(m) ==
    IF m.groupItemTitle.has THEN m.groupItemTitle.v
    ELSE IF m.question.has THEN m.question.v
    ELSE <<"Unknown">>

\* the tuple (m, title, parsed_dt) built for one market
Entry(m, current_year) ==
    [m |-> m, title |-> Title(m),
     parsed_dt |-> parse_market_date(Title(m), current_year)]

\* the two "continue" conditions of the filter loop, negated
Survives(e, today) ==
    /\ ~is_market_closed(e.m)
    /\ ~(e.parsed_dt # NoDate /\ Ord(e.parsed_dt) <= Ord(today))

\* valid_markets after the filter loop
FilterValid(ms, today) ==
    SelectSeq([i \in 1..Len(ms) |-> Entry(ms[i], today.year)],
              LAMBDA e : Survives(e, today))

\* sorted(dated, key=lambda x: x[2]) is stable: an item goes after every item
\* whose date is not later than its own
RECURSIVE InsertByDate(_, _)
InsertByDate(sorted, e) ==
    IF sorted = <<>> THEN <<e>>
    ELSE IF Ord(Head(sorted).parsed_dt) <= Ord(e.parsed_dt)
    THEN <<Head(sorted)>> \o InsertByDate(Tail(sorted), e)
    ELSE <<e>> \o sorted

RECURSIVE SortedByDate(_)
SortedByDate(items) ==
    IF items = <<>> THEN <<>>
    ELSE InsertByDate(SortedByDate(SubSeq(items, 1, Len(items) - 1)),
                      items[Len(items)])

\* the cap of the slice [:5]
MaxReported == 5

\* faulty variant: the dated items are concatenated without being sorted
OrderMarketsUnsorted(valid) ==
    LET dated == SelectSeq(valid, LAMBDA e : e.parsed_dt # NoDate)
        undated == SelectSeq(valid, LAMBDA e : e.parsed_dt = NoDate)
        all == dated \o undated
    IN  SubSeq(all, 1, IF Len(all) < MaxReported THEN Len(all) ELSE MaxReported)

\* ordered_markets
OrderMarkets(valid) ==
    LET dated == SelectSeq(valid, LAMBDA e : e.parsed_dt # NoDate)
        undated == SelectSeq(valid, LAMBDA e : e.parsed_dt = NoDate)
        all == SortedByDate(dated) \o undated
    IN  SubSeq(all, 1, IF Len(all) < MaxReported THEN Len(all) ELSE MaxReported)

\* plt.subplots(n, 1): one Axes object for n = 1, an array of n otherwise
Subplots(n) ==
    IF n = 1 THEN [kind |-> "axes", ids |-> <<1>>]
    ELSE [kind |-> "array", ids |-> [k \in 1..n |-> k]]

\* if n == 1: axs = [axs]
WrapSingle(a, n) == IF n = 1 THEN [kind |-> "array", ids |-> a.ids] ELSE a

\* number of pairs zip(axs, ordered_markets) yields; iterating a bare Axes
\* object is a TypeError
ZipRaises(a) == a.kind # "array"
ZipLen(a, ordered) == IF Len(a.ids) < Len(ordered) THEN Len(a.ids) ELSE Len(ordered)

(***************************************************************************)
(* The remote services: markets of an event, full records by slug, price   *)
(* histories by token.  A price p in [0,1] is written in thousandths.      *)
(***************************************************************************)
Market(closed, isResolved, status, groupItemTitle, question, slug, tokens, outcomes, clobTokenIds) ==
    [closed |-> closed, isResolved |-> isResolved, status |-> status,
     groupItemTitle |-> groupItemTitle, question |-> question, slug |-> slug,
     tokens |-> tokens, outcomes |-> outcomes, clobTokenIds |-> clobTokenIds]

Tok(outcome, tokenId) == [outcome |-> outcome, tokenId |-> tokenId]
YesNoTokens(t) == PyList(<<Tok("No", "tNo"), Tok("Yes", t)>>)

\* open, dated in the future, token in the tokens list
MJan31 == Market(FALSE, FALSE, "", Key(<<"January", 31>>), NoKey, "s1",
                 YesNoTokens("tA"), PyNone, PyNone)
\* open, dated in the future, token only in the stringified parallel lists
MFeb1 == Market(FALSE, FALSE, "Active", Key(<<"February", 1>>), NoKey, "s2",
                PyNone, PyStr(TRUE, <<"No", "Yes">>), PyStr(TRUE, <<"tNo", "tB">>))
\* open, undated (title from the question), token only in the full record
MYes == Market(FALSE, FALSE, "", NoKey, Key(<<"Yes">>), "s3",
               PyNone, PyStr(FALSE, <<>>), PyList(<<"tNo", "tX">>))
\* open, undated, "yes" entry without tokenId, full record answers 404
MNo == Market(FALSE, FALSE, "", Key(<<"No">>), Key(<<"March", 1>>), "s4",
              PyList(<<Tok("Yes", NoToken)>>), PyList(<<"Yes">>), PyList(<<"tA">>))
\* open, invalid day (undated), no token and no slug
MFeb30 == Market(FALSE, FALSE, "", Key(<<"February", 30>>), NoKey, "",
                 PyNone, PyNone, PyNone)
\* open, same date as MFeb1, no token in the summary nor in the full record
MFeb1b == Market(FALSE, FALSE, "", Key(<<"February", 1>>), NoKey, "s6",
                 PyList(<<Tok("No", "tNo")>>), PyList(<<"No", "Yes">>),
                 PyList(<<"tNo">>))
\* open, undated, the full-detail request raises
MMaybe == Market(FALSE, FALSE, "", NoKey, NoKey, "s7", PyNone, PyNone, PyNone)
\* open, dated in the future, token resolves, every history attempt fails
MMar1 == Market(FALSE, FALSE, "", Key(<<"March", 1>>), NoKey, "s8",
                PyNone, PyList(<<"True", "False">>), PyList(<<"tC", "tNo">>))
\* open, dated in the future, history points lack the 't' field
MApr2 == Market(FALSE, FALSE, "", Key(<<"April", 2>>), NoKey, "s9",
                YesNoTokens("tD"), PyNone, PyNone)
\* discarded by the filter: closed flag, isResolved flag, status, date passed,
\* date is today
MClosed == Market(TRUE, FALSE, "", Key(<<"February", 1>>), NoKey, "s10",
                  YesNoTokens("tA"), PyNone, PyNone)
MIsResolved == Market(FALSE, TRUE, "Active", Key(<<"Yes">>), NoKey, "s11",
                      YesNoTokens("tA"), PyNone, PyNone)
MStatus == Market(FALSE, FALSE, "RESOLVED", Key(<<"March", 1>>), NoKey, "s12",
                  YesNoTokens("tA"), PyNone, PyNone)
MPast == Market(FALSE, FALSE, "", Key(<<"January", 15>>), NoKey, "s13",
                YesNoTokens("tA"), PyNone, PyNone)
MToday == Market(FALSE, FALSE, "", Key(<<"January", 20>>), NoKey, "s14",
                 YesNoTokens("tA"), PyNone, PyNone)

MarketPool == {MJan31, MFeb1, MYes, MNo, MFeb30, MFeb1b, MMaybe, MMar1, MApr2,
               MClosed, MIsResolved, MStatus, MPast, MToday}
SelectionPool == {MJan31, MFeb1, MFeb1b, MYes, MNo, MStatus}
CapPool == {MJan31, MFeb1, MYes}

NoTokens == [tokens |-> PyNone, outcomes |-> PyNone, clobTokenIds |-> PyNone]

\* GET markets/slug/<slug>
FullMarketResponse(slug) ==
    CASE slug = "s3" -> MarketAnswer(FALSE, 200,
                            [tokens |-> PyList(<<Tok("No", "tNo"), Tok(" YES ", "tE")>>),
                             outcomes |-> PyNone, clobTokenIds |-> PyNone])
      [] slug = "s4" -> MarketAnswer(FALSE, 404, NoTokens)
      [] slug = "s6" -> MarketAnswer(FALSE, 200,
                            [tokens |-> PyList(<<>>), outcomes |-> PyList(<<"Yes", "No">>),
                             clobTokenIds |-> PyStr(FALSE, <<>>)])
      [] slug = "s7" -> MarketAnswer(TRUE, 0, NoTokens)
      [] OTHER -> MarketAnswer(FALSE, 200,
                            [tokens |-> YesNoTokens("tA"), outcomes |-> PyNone,
                             clobTokenIds |-> PyNone])

Pt(t, p) == [t |-> t, p |-> p]
HistA == <<Pt(1, 500), Pt(2, 623)>>
HistB == <<Pt(3, 71), Pt(1, 900)>>
HistE == <<Pt(5, 1000)>>
HistBad == <<[p |-> 500]>>

\* GET prices-history, one answer per strategy
HistoryResponses(token) ==
    CASE token = "tA" -> <<HistoryAnswer(FALSE, 200, HistA),
                           HistoryAnswer(FALSE, 200, HistB),
                           HistoryAnswer(FALSE, 200, HistE)>>
      [] token = "tB" -> <<HistoryAnswer(FALSE, 200, <<>>),
                           HistoryAnswer(TRUE, 0, <<>>),
                           HistoryAnswer(FALSE, 200, HistB)>>
      [] token = "tC" -> <<HistoryAnswer(FALSE, 404, HistA),
                           HistoryAnswer(TRUE, 0, <<>>),
                           HistoryAnswer(FALSE, 200, <<>>)>>
      [] token = "tD" -> <<HistoryAnswer(FALSE, 500, <<>>),
                           HistoryAnswer(FALSE, 200, HistBad),
                           HistoryAnswer(FALSE, 200, HistA)>>
      [] token = "tE" -> <<HistoryAnswer(TRUE, 0, <<>>),
                           HistoryAnswer(FALSE, 200, HistE),
                           HistoryAnswer(FALSE, 200, HistA)>>
      [] OTHER -> <<HistoryAnswer(FALSE, 404, <<>>),
                    HistoryAnswer(FALSE, 404, <<>>),
                    HistoryAnswer(FALSE, 404, <<>>)>>

(***************************************************************************)
(* report_generator.generate_report: the per-item loop (lines 71-118)      *)
(***************************************************************************)
Call(fn, arg) == [fn |-> fn, arg |-> arg]

\* faulty variant: only the empty string counts as "no token"
HasTokenNotEmpty(t) == t # ""

\* "if yes_token_id": None and the empty string are falsy
HasToken(t) == t # NoToken /\ t # ""

\* faulty variant: no fallback to the full record
ResolveTokenNoFallback(market) ==
    [token |-> get_yes_token_id(market),
     calls |-> <<Call("get_yes_token_id", "summary")>>]

\* lines 77-85: the token of the summary record, else one look at the full
\* record when the summary carries a slug
ResolveToken(market) ==
    LET first == get_yes_token_id(market)
        c1 == <<Call("get_yes_token_id", "summary")>>
    IN  IF HasToken(first) THEN [token |-> first, calls |-> c1]
        ELSE IF market.slug = "" THEN [token |-> first, calls |-> c1]
        ELSE LET full == fetch_full_market_details(FullMarketResponse(market.slug))
                 c2 == Append(c1, Call("fetch_full_market_details", market.slug))
             IN  IF full.found
                 THEN [token |-> get_yes_token_id(full.market),
                       calls |-> Append(c2, Call("get_yes_token_id", "full"))]
                 ELSE [token |-> first, calls |-> c2]

\* pd.DataFrame(history)['t'] / ['p'] exist only when some point carries them
HasColumns(history) ==
    /\ \E k \in 1..Len(history) : "t" \in DOMAIN history[k]
    /\ \E k \in 1..Len(history) : "p" \in DOMAIN history[k]

\* df.sort_values('t')['p'].iloc[-1], after p * 100: the latest point, in
\* tenths of a percent
CurrentVal(history) ==
    history[CHOOSE k \in 1..Len(history) :
                \A j \in 1..Len(history) : history[j].t <= history[k].t].p

NA == [text |-> "N/A", whole |-> 0, tenth |-> 0]
\* f"{current_val:.1f}%"
FormatPercent(v) == [text |-> "%", whole |-> v \div 10, tenth |-> v % 10]

\* group_date
GroupDate(e) ==
    [title |-> e.title,
     date |-> IF e.parsed_dt # NoDate THEN Strftime(e.parsed_dt) ELSE <<>>]

Panel(kind, label, current) == [kind |-> kind, label |-> label, current |-> current]
Blank == Panel("blank", [title |-> <<>>, date |-> <<>>], NA)

\* what the history branch (lines 88-115) makes of the resolved token
ShowHistory(label, token, history) ==
    IF ~HasToken(token)
    THEN [raised |-> FALSE, current_val_str |-> NA,
          panel |-> Panel("Data Unavailable", label, NA)]
    ELSE IF history = <<>>
    THEN [raised |-> FALSE, current_val_str |-> NA,
          panel |-> Panel("No History", label, NA)]
    ELSE IF ~HasColumns(history)
    THEN [raised |-> TRUE, current_val_str |-> NA, panel |-> Blank]
    ELSE [raised |-> FALSE,
          current_val_str |-> FormatPercent(CurrentVal(history)),
          panel |-> Panel("series", label, FormatPercent(CurrentVal(history)))]

\* one iteration of the loop on the tuple e: the row appended, the panel drawn,
\* the data-source calls made, and whether the iteration raised
LoopBody(e) ==
    LET group_date == GroupDate(e)
        res == ResolveToken(e.m)
        asked == HasToken(res.token)
        got == IF asked THEN get_price_history(HistoryResponses(res.token))
               ELSE [raised |-> FALSE, history |-> <<>>, requests |-> <<>>]
        shown == ShowHistory(group_date, res.token, got.history)
    IN  [raised |-> got.raised \/ shown.raised,
         row |-> [market |-> group_date, prob |-> shown.current_val_str],
         panel |-> shown.panel,
         calls |-> IF asked THEN Append(res.calls, Call("get_price_history", res.token))
                   ELSE res.calls]

(***************************************************************************)
(* State machine                                                           *)
(***************************************************************************)
Now == [year |-> 2026, month |-> 1, day |-> 20]

SeqsUpTo(S, n) == UNION {[1..k -> S] : k \in 0..n}

EventAnswer(raises, status, ms) == [raises |-> raises, status |-> status, markets |-> ms]

NoResult == [status |-> "none", image |-> FALSE, message |-> "", table |-> <<>>]
NoHistoryReturn == [called |-> FALSE, raised |-> FALSE, history |-> <<>>,
                    requests |-> <<>>]
NoHistoryResponses == <<HistoryAnswer(FALSE, 404, <<>>), HistoryAnswer(FALSE, 404, <<>>),
                        HistoryAnswer(FALSE, 404, <<>>)>>

InitLocals ==
    /\ now = Now
    /\ markets = <<>>
    /\ valid_markets = <<>>
    /\ ordered_markets = <<>>
    /\ axs = [kind |-> "array", ids |-> <<>>]
    /\ panels = <<>>
    /\ iter = 0
    /\ table_rows = <<>>
    /\ calls = <<>>
    /\ result = NoResult
    /\ chat = <<>>
    /\ handler = "running"

Init ==
    /\ event \in {EventAnswer(TRUE, 0, <<>>), EventAnswer(FALSE, 404, <<MJan31>>)}
                 \cup {EventAnswer(FALSE, 200, ms) : ms \in SeqsUpTo(MarketPool, MaxMarkets)}
                 \cup {EventAnswer(FALSE, 200, ms) : ms \in SeqsUpTo(SelectionPool, MaxSelection)}
                 \cup {EventAnswer(FALSE, 200, ms) : ms \in SeqsUpTo(CapPool, MaxCapMarkets)}
    /\ pc = "idle"
    /\ InitLocals
    /\ hist_responses = NoHistoryResponses
    /\ hist_return = NoHistoryReturn

Msg(kind, text, rows) == [kind |-> kind, text |-> text, rows |-> rows]
Notice == Msg("message", "Fetching latest odds from Polymarket...", <<>>)
Photo == Msg("photo", "", <<>>)
TableMsg(rows) == Msg("message", "table", rows)
ErrorMsg(text) == Msg("message", "Error: ", <<text>>)
UnexpectedMsg == Msg("message", "An unexpected error occurred: ", <<>>)

\* bot.send_message / bot.send_photo: the message reaches the chat, or the call
\* raises and nothing is delivered
Send(log, msg, ok) == IF ok THEN Append(log, msg) ELSE log

\* handle_dynamic_command up to the "fetching" notice, which is sent outside
\* the try block
HandleCommand ==
    /\ pc = "idle"
    /\ \E ok \in BOOLEAN :
        /\ chat' = Send(chat, Notice, ok)
        /\ pc' = IF ok THEN "report" ELSE "done"
        /\ handler' = IF ok THEN handler ELSE "propagated"
    /\ UNCHANGED <<event, now, markets, valid_markets, ordered_markets, axs, panels,
                   iter, table_rows, calls, result, hist_responses, hist_return>>

NoMarketsMessage == "Could not fetch event markets. Check the URL."
\* faulty variant: the message of the other early return
NoValidMessageCopied == NoMarketsMessage

NoValidMessage == "No open future markets found for this event."

Today == now

\* the one request of get_event_markets, made before any item is looked at
EventCall == [fn |-> "get_event_markets", arg |-> "event", item |-> 0]

\* generate_report returning at line 36
ReturnNoMarkets ==
    /\ pc = "report"
    /\ get_event_markets(event) = <<>>
    /\ markets' = get_event_markets(event)
    /\ calls' = Append(calls, EventCall)
    /\ result' = [status |-> "returned", image |-> FALSE,
                  message |-> NoMarketsMessage, table |-> <<>>]
    /\ pc' = "deliver"
    /\ UNCHANGED <<event, now, valid_markets, ordered_markets, axs, panels, iter,
                   table_rows, chat, handler, hist_responses, hist_return>>

\* generate_report returning at line 52
ReturnNoValid ==
    /\ pc = "report"
    /\ get_event_markets(event) # <<>>
    /\ FilterValid(get_event_markets(event), Today) = <<>>
    /\ markets' = get_event_markets(event)
    /\ valid_markets' = <<>>
    /\ calls' = Append(calls, EventCall)
    /\ result' = [status |-> "returned", image |-> FALSE,
                  message |-> NoValidMessage, table |-> <<>>]
    /\ pc' = "deliver"
    /\ UNCHANGED <<event, now, ordered_markets, axs, panels, iter,
                   table_rows, chat, handler, hist_responses, hist_return>>

\* generate_report from line 34 to line 69: fetch, filter, order, set up the plot
SelectMarkets ==
    /\ pc = "report"
    /\ get_event_markets(event) # <<>>
    /\ FilterValid(get_event_markets(event), Today) # <<>>
    /\ markets' = get_event_markets(event)
    /\ valid_markets' = FilterValid(markets', Today)
    /\ ordered_markets' = OrderMarkets(valid_markets')
    /\ LET n == Len(ordered_markets')
       IN  /\ axs' = WrapSingle(Subplots(n), n)
           /\ panels' = [k \in 1..n |-> Blank]
    /\ iter' = 0
    /\ table_rows' = <<>>
    /\ calls' = Append(calls, EventCall)
    /\ pc' = "loop"
    /\ UNCHANGED <<event, now, result, chat, handler, hist_responses, hist_return>>

Raise == [status |-> "raised", image |-> FALSE, message |-> "", table |-> <<>>]

\* faulty variant: the row is inserted at the head of the table
AddRowFront(rows, row) == <<row>> \o rows

\* table_rows.append(...)
AddRow(rows, row) == Append(rows, row)

\* one iteration of "for ax, (market, title, parsed_dt) in zip(axs, ordered_markets)"
ProcessItem ==
    /\ pc = "loop"
    /\ ZipRaises(axs) \/ iter < ZipLen(axs, ordered_markets)
    /\ IF ZipRaises(axs)
       THEN /\ result' = Raise
            /\ pc' = "deliver"
            /\ UNCHANGED <<iter, panels, table_rows, calls>>
       ELSE LET i == iter + 1
                body == LoopBody(ordered_markets[i])
            IN  /\ calls' = calls \o [k \in 1..Len(body.calls) |->
                                        [fn |-> body.calls[k].fn, arg |-> body.calls[k].arg,
                                         item |-> i]]
                /\ IF body.raised
                   THEN /\ result' = Raise
                        /\ pc' = "deliver"
                        /\ UNCHANGED <<iter, panels, table_rows>>
                   ELSE /\ panels' = [panels EXCEPT ![axs.ids[i]] = body.panel]
                        /\ table_rows' = AddRow(table_rows, body.row)
                        /\ iter' = i
                        /\ UNCHANGED <<result, pc>>
    /\ UNCHANGED <<event, now, markets, valid_markets, ordered_markets, axs, chat,
                   handler, hist_responses, hist_return>>

\* lines 120-133: save the figure, build the table, return (buf, table_text)
SaveReport ==
    /\ pc = "loop"
    /\ ~ZipRaises(axs)
    /\ iter = ZipLen(axs, ordered_markets)
    /\ result' = [status |-> "returned", image |-> TRUE, message |-> "",
                  table |-> table_rows]
    /\ pc' = "deliver"
    /\ UNCHANGED <<event, now, markets, valid_markets, ordered_markets, axs, panels,
                   iter, table_rows, calls, chat, handler, hist_responses, hist_return>>

\* the except block of handle_dynamic_command: one more send, itself unguarded
Except(log, ok) ==
    [chat |-> Send(log, UnexpectedMsg, ok),
     handler |-> IF ok THEN "returned" ELSE "propagated"]

\* the try block when generate_report returned a photo (lines 110-118)
DeliverReport ==
    /\ pc = "deliver"
    /\ result.status = "returned"
    /\ result.image
    /\ \E photoOk \in BOOLEAN, tableOk \in BOOLEAN, errorOk \in BOOLEAN :
        LET sent == IF photoOk THEN Send(Send(chat, Photo, TRUE),
                                         TableMsg(result.table), tableOk)
                    ELSE chat
            out == IF photoOk /\ tableOk
                   THEN [chat |-> sent, handler |-> "returned"]
                   ELSE Except(sent, errorOk)
        IN  /\ chat' = out.chat
            /\ handler' = out.handler
    /\ pc' = "done"
    /\ UNCHANGED <<event, now, markets, valid_markets, ordered_markets, axs, panels,
                   iter, table_rows, calls, result, hist_responses, hist_return>>

\* the try block when generate_report returned no photo (lines 119-122)
DeliverError ==
    /\ pc = "deliver"
    /\ result.status = "returned"
    /\ ~result.image
    /\ \E sentOk \in BOOLEAN, errorOk \in BOOLEAN :
        LET out == IF sentOk
                   THEN [chat |-> Send(chat, ErrorMsg(result.message), TRUE),
                         handler |-> "returned"]
                   ELSE Except(chat, errorOk)
        IN  /\ chat' = out.chat
            /\ handler' = out.handler
    /\ pc' = "done"
    /\ UNCHANGED <<event, now, markets, valid_markets, ordered_markets, axs, panels,
                   iter, table_rows, calls, result, hist_responses, hist_return>>

\* generate_report raised: control goes straight to the except block
DeliverException ==
    /\ pc = "deliver"
    /\ result.status = "raised"
    /\ \E errorOk \in BOOLEAN :
        /\ chat' = Except(chat, errorOk).chat
        /\ handler' = Except(chat, errorOk).handler
    /\ pc' = "done"
    /\ UNCHANGED <<event, now, markets, valid_markets, ordered_markets, axs, panels,
                   iter, table_rows, calls, result, hist_responses, hist_return>>

Next ==
    \/ HandleCommand
    \/ ReturnNoMarkets
    \/ ReturnNoValid
    \/ SelectMarkets
    \/ ProcessItem
    \/ SaveReport
    \/ DeliverReport
    \/ DeliverError
    \/ DeliverException

Spec == Init /\ [][Next]_vars

(***************************************************************************)
(* get_price_history on its own, over every combination of answers         *)
(***************************************************************************)
HistoryAnswers ==
    {HistoryAnswer(TRUE, 0, <<>>), HistoryAnswer(FALSE, 404, HistA),
     HistoryAnswer(FALSE, 500, <<>>), HistoryAnswer(FALSE, 200, <<>>),
     HistoryAnswer(FALSE, 200, HistA), HistoryAnswer(FALSE, 200, HistB),
     HistoryAnswer(FALSE, 200, HistE)}

InitHist ==
    /\ event = EventAnswer(TRUE, 0, <<>>)
    /\ pc = "history"
    /\ InitLocals
    /\ hist_responses \in [1..Len(Strategies) -> HistoryAnswers]
    /\ hist_return = NoHistoryReturn

CallGetPriceHistory ==
    /\ pc = "history"
    /\ ~hist_return.called
    /\ LET r == get_price_history(hist_responses)
       IN  hist_return' = [called |-> TRUE, raised |-> r.raised,
                           history |-> r.history, requests |-> r.requests]
    /\ UNCHANGED <<event, now, pc, markets, valid_markets, ordered_markets, axs,
                   panels, iter, table_rows, calls, result, chat, handler,
                   hist_responses>>

NextHist == CallGetPriceHistory

SpecHist == InitHist /\ [][NextHist]_vars

(***************************************************************************)
(* Claims                                                                  *)
(***************************************************************************)
Selected == pc \in {"loop", "deliver", "done"} /\ valid_markets # <<>>
ReturnedImage == result.status = "returned" /\ result.image
IsDated(e) == e.parsed_dt # NoDate

\* position of survivor a in D ++ U: the survivors that come before it are the
\* dated ones when a is undated, the dated ones with an earlier date (or the
\* same date and an earlier place in the list) when a is dated, and the
\* undated ones listed before a when a is undated
ComesBefore(v, b, a) ==
    \/ IsDated(v[b]) /\ ~IsDated(v[a])
    \/ IsDated(v[b]) /\ IsDated(v[a])
         /\ (Ord(v[b].parsed_dt) < Ord(v[a].parsed_dt)
             \/ (Ord(v[b].parsed_dt) = Ord(v[a].parsed_dt) /\ b < a))
    \/ ~IsDated(v[b]) /\ ~IsDated(v[a]) /\ b < a
PlaceOf(v, a) == Cardinality({b \in 1..Len(v) : ComesBefore(v, b, a)}) + 1

\* C1: the items reported on are the first min(5, k) elements of D ++ U (D the
\* surviving dated items by ascending date, U the surviving undated items in
\* their original order); so at most 5 items, dated ones in non-decreasing
\* date order, and no undated item before a dated one.
C1_PolicyAOrderAndCap ==
    Selected =>
        LET v == valid_markets
            o == ordered_markets
            k == Len(v)
        IN  /\ Len(o) = (IF k < 5 THEN k ELSE 5)
            /\ \A a \in 1..k : PlaceOf(v, a) <= 5 => o[PlaceOf(v, a)] = v[a]
            /\ Len(o) <= 5
            /\ \A i \in 1..Len(o), j \in 1..Len(o) :
                  i < j =>
                    /\ IsDated(o[j]) => IsDated(o[i])
                    /\ IsDated(o[i]) /\ IsDated(o[j])
                         => Ord(o[i].parsed_dt) <= Ord(o[j].parsed_dt)
            /\ ReturnedImage =>
                  /\ Len(result.table) = Len(o)
                  /\ \A i \in 1..Len(o) : result.table[i].market.title = o[i].title

\* more than five survivors, given undated first and with dates out of order,
\* reported as five rows starting with the earliest date
C1_Witness ==
    /\ pc = "done"
    /\ ReturnedImage
    /\ Len(valid_markets) > 5
    /\ Len(result.table) = 5
    /\ ~IsDated(valid_markets[1])
    /\ valid_markets[2].title = <<"February", 1>>
    /\ valid_markets[3].title = <<"January", 31>>
    /\ result.table[1].market.title = <<"January", 31>>
    /\ \E i \in 1..5 : result.table[i].market.title = <<"Yes">>

\* C2: every sub-market of a report row is open (closed and isResolved unset,
\* status not closed/resolved/finalized whatever its case) and is undated or
\* dated strictly after today; an open sub-market whose title yields no date is
\* never discarded by the filter.
C2_PolicyAFilter ==
    pc \in {"loop", "deliver", "done"} =>
        /\ \A i \in 1..Len(ordered_markets) :
              LET e == ordered_markets[i]
              IN  /\ ~e.m.closed
                  /\ ~e.m.isResolved
                  /\ e.m.status \notin {"closed", "resolved", "finalized", "Closed",
                                        "RESOLVED", "Finalized"}
                  /\ \E j \in 1..Len(markets) : markets[j] = e.m
                  /\ e.parsed_dt = NoDate \/ Ord(e.parsed_dt) > Ord(now)
        /\ \A i \in 1..Len(table_rows) :
              table_rows[i].market.title = ordered_markets[i].title
        /\ \A j \in 1..Len(markets) :
              LET m == markets[j]
              IN  (/\ ~m.closed /\ ~m.isResolved
                   /\ m.status \in {"", "Active"}
                   /\ parse_market_date(Title(m), now.year) = NoDate)
                  => \E a \in 1..Len(valid_markets) : valid_markets[a].m = m

\* a market closed by an upper-case status is dropped and an open market with
\* an unparseable date title gets its row
C2_Witness ==
    /\ pc = "done"
    /\ ReturnedImage
    /\ \E j \in 1..Len(markets) : markets[j].status = "RESOLVED"
    /\ \E j \in 1..Len(markets) : Title(markets[j]) = <<"February", 30>>
    /\ Len(result.table) = 1
    /\ result.table[1].market.title = <<"February", 30>>

\* C3: when an image is returned, the table holds exactly one row per selected
\* item and the i-th row is the row of the i-th selected item.
C3_OneRowPerItemInOrder ==
    ReturnedImage =>
        /\ Len(result.table) = Len(ordered_markets)
        /\ Len(panels) = Len(ordered_markets)
        /\ \A i \in 1..Len(ordered_markets) :
              /\ result.table[i].market.title = ordered_markets[i].title
              /\ result.table[i].market.date =
                    (IF IsDated(ordered_markets[i])
                     THEN <<ordered_markets[i].parsed_dt.year,
                            ordered_markets[i].parsed_dt.month,
                            ordered_markets[i].parsed_dt.day>>
                     ELSE <<>>)
              /\ panels[i].label = result.table[i].market

\* a mix of a priced item, a history-less item and a token-less item
C3_Witness ==
    /\ ReturnedImage
    /\ Len(result.table) = 3
    /\ result.table[1].prob.text = "%"
    /\ panels[2].kind = "Data Unavailable"
    /\ panels[3].kind = "series"
    /\ result.table[1].market.title # result.table[2].market.title
    /\ result.table[2].market.title # result.table[3].market.title

\* what the data source holds for the selected item e, read off the answers
NoTok(t) == t \in {"None", ""}
SummaryToken(e) == get_yes_token_id(e.m)
FullRecordFound(e) ==
    /\ e.m.slug # ""
    /\ ~FullMarketResponse(e.m.slug).raises
    /\ FullMarketResponse(e.m.slug).status = 200
FullToken(e) == get_yes_token_id(FullMarketResponse(e.m.slug).json)
Unresolved(e) ==
    NoTok(SummaryToken(e)) /\ (~FullRecordFound(e) \/ NoTok(FullToken(e)))
TokenOf(e) == IF NoTok(SummaryToken(e)) THEN FullToken(e) ELSE SummaryToken(e)
HistoryOf(e) == get_price_history(HistoryResponses(TokenOf(e))).history
CallsFor(i, fn) == {k \in 1..Len(calls) : calls[k].item = i /\ calls[k].fn = fn}
InLoop == pc \in {"loop", "deliver", "done"}

\* C4: an item whose token resolves neither from the summary nor from the full
\* record gets "N/A", no series, and no get_price_history call; an item whose
\* token resolves but whose history is empty gets "N/A" and no series; a
\* percentage is shown only for a resolved token with a non-empty history.
C4_MissingDataPolicy ==
    InLoop =>
        \A i \in 1..Len(table_rows) :
            LET e == ordered_markets[i]
                row == table_rows[i]
            IN  /\ Unresolved(e) =>
                      /\ row.prob.text = "N/A"
                      /\ panels[i].kind # "series"
                      /\ CallsFor(i, "get_price_history") = {}
                /\ (~Unresolved(e) /\ HistoryOf(e) = <<>>) =>
                      /\ row.prob.text = "N/A"
                      /\ panels[i].kind # "series"
                /\ row.prob.text # "N/A" =>
                      /\ ~Unresolved(e)
                      /\ HistoryOf(e) # <<>>
                      /\ panels[i].kind = "series"

\* a token-less item and a history-less item, each with "N/A"
C4_Witness ==
    /\ pc = "done"
    /\ ReturnedImage
    /\ Len(table_rows) = 2
    /\ ~Unresolved(ordered_markets[1]) /\ HistoryOf(ordered_markets[1]) = <<>>
    /\ Unresolved(ordered_markets[2])
    /\ table_rows[1].prob.text = "N/A"
    /\ table_rows[2].prob.text = "N/A"
    /\ CallsFor(1, "get_price_history") # {}
    /\ CallsFor(2, "get_price_history") = {}

\* the probability column of e's row, from e's own data alone
OwnProb(e) ==
    IF Unresolved(e) \/ HistoryOf(e) = <<>> THEN NA
    ELSE FormatPercent(CurrentVal(HistoryOf(e)))

\* C5: a missing token, a failed or erroring full-detail fetch, and a failed,
\* erroring or empty price-history request never abort the report: the report
\* is only ever abandoned on an item with a resolved token and a non-empty
\* history; when it is returned every selected item was looked up and has its
\* row, and each row is what the item's own data gives.
C5_FailureLocality ==
    /\ result.status = "raised" =>
          /\ iter < Len(ordered_markets)
          /\ ~Unresolved(ordered_markets[iter + 1])
          /\ HistoryOf(ordered_markets[iter + 1]) # <<>>
    /\ ReturnedImage =>
          /\ Len(table_rows) = Len(ordered_markets)
          /\ \A j \in 1..Len(ordered_markets) :
                /\ CallsFor(j, "get_yes_token_id") # {}
                /\ table_rows[j].prob = OwnProb(ordered_markets[j])

\* a first item with no token anywhere, then an item that is still priced
C5_Witness ==
    /\ pc = "done"
    /\ ReturnedImage
    /\ Len(table_rows) = 2
    /\ Unresolved(ordered_markets[1])
    /\ CallsFor(1, "fetch_full_market_details") # {}
    /\ table_rows[1].prob.text = "N/A"
    /\ table_rows[2].prob.text = "%"

OpenFuture(m) ==
    /\ ~m.closed
    /\ ~m.isResolved
    /\ m.status \notin {"closed", "resolved", "finalized", "Closed", "RESOLVED",
                        "Finalized"}
    /\ \/ parse_market_date(Title(m), now.year) = NoDate
       \/ Ord(parse_market_date(Title(m), now.year)) > Ord(now)

C7_OneShotFallback ==
    InLoop =>
        \A i \in 1..Len(table_rows) :
            LET e == ordered_markets[i]
                fetches == CallsFor(i, "fetch_full_market_details")
            IN  /\ Cardinality(fetches) <= 1
                /\ fetches # {} => NoTok(SummaryToken(e))
                /\ \A k \in fetches : calls[k].arg = e.m.slug
                /\ (NoTok(SummaryToken(e)) /\ FullRecordFound(e)
                        /\ ~NoTok(FullToken(e))) =>
                      /\ Cardinality(fetches) = 1
                      /\ \E k \in CallsFor(i, "get_price_history") :
                            calls[k].arg = FullToken(e)
                /\ (NoTok(SummaryToken(e))
                        /\ (~FullRecordFound(e) \/ NoTok(FullToken(e)))) =>
                      /\ CallsFor(i, "get_price_history") = {}
                      /\ Cardinality(CallsFor(i, "get_yes_token_id")) <= 2
                      /\ table_rows[i].prob.text = "N/A"

\* the token comes from the full record only, and the item is priced
C7_Witness ==
    /\ pc = "done"
    /\ ReturnedImage
    /\ \E i \in 1..Len(table_rows) :
          /\ NoTok(SummaryToken(ordered_markets[i]))
          /\ \E k \in CallsFor(i, "fetch_full_market_details") : calls[k].arg = "s3"
          /\ \E k \in CallsFor(i, "get_price_history") : calls[k].arg = "tE"
          /\ table_rows[i].prob = [text |-> "%", whole |-> 100, tenth |-> 0]

\* C8: exactly 3 rows are produced whenever at least one sub-market title
\* parses into a date.
C8_ThreeRowsWhenDated ==
    (/\ result.status = "returned"
     /\ \E j \in 1..Len(markets) :
            parse_market_date(Title(markets[j]), now.year) # NoDate)
    => result.image /\ Len(result.table) = 3

\* C9: once the notice is out, the chat receives exactly one outcome (photo
\* then table for an image, one error message carrying the text for no image,
\* one generic failure message when generate_report raised), and no failure
\* propagates out of the handler.
C9_ExactlyOneOutcome ==
    (pc = "done" /\ chat # <<>>) =>
        /\ handler = "returned"
        /\ Head(chat) = Notice
        /\ LET delivered == Tail(chat)
           IN  CASE result.status = "returned" /\ result.image ->
                        delivered = <<Photo, TableMsg(result.table)>>
                 [] result.status = "returned" /\ ~result.image ->
                        delivered = <<ErrorMsg(result.message)>>
                 [] OTHER -> delivered = <<UnexpectedMsg>>

Succeeds(a) == ~a.raises /\ a.status = 200 /\ a.history # <<>>

\* C10: the requests are made in the order 1d, 6h, max; the series returned is
\* that of the first attempt answering 200 with a non-empty history, and no
\* request follows it; an attempt that raises, answers another status or an
\* empty history is followed by the next strategy; the empty series is
\* returned only when all three attempts failed; nothing is raised.
C10_HistoryStrategies ==
    hist_return.called =>
        LET n == Len(hist_return.requests)
        IN  /\ ~hist_return.raised
            /\ n \in 1..3
            /\ hist_return.requests = SubSeq(<<"1d", "6h", "max">>, 1, n)
            /\ \A j \in 1..(n - 1) : ~Succeeds(hist_responses[j])
            /\ Succeeds(hist_responses[n]) <=> hist_return.history # <<>>
            /\ Succeeds(hist_responses[n]) =>
                  hist_return.history = hist_responses[n].history
            /\ ~Succeeds(hist_responses[n]) => n = 3
            /\ hist_return.history = <<>> =>
                  \A j \in 1..3 : ~Succeeds(hist_responses[j])

\* the first request raises, the second answers 200 with no history, the third
\* answers with a series
C10_Witness ==
    /\ hist_return.called
    /\ hist_responses[1].raises
    /\ hist_responses[2].status = 200 /\ hist_responses[2].history = <<>>
    /\ Succeeds(hist_responses[3])
    /\ hist_return.requests = <<"1d", "6h", "max">>
    /\ hist_return.history = hist_responses[3].history

====
